---- MODULE Spec2Model ----
(***************************************************************************)
(* esky.fstransact: the deferred (fallback) FSTransaction, the class that  *)
(* is defined when CreateTransaction is None.  The filesystem is a map     *)
(* from paths to file contents; move/copy/remove append to self.pending;   *)
(* commit replays the queue one system call at a time, each of which may   *)
(* fail; abort empties the queue.                                          *)
(***************************************************************************)
EXTENDS Integers, Sequences, FiniteSets, TLC

\* ---------------------------------------------------------------- bounds
\* Number of move/copy/remove calls made on the transaction object.
MaxCalls == 2
\* Number of commit() calls made on the transaction object.
MaxCommits == 2

\* Bytes per read in files_differ: 1024*256 in the source, scaled down so
\* that files of a few bytes span several reads.
ChunkSize == 2

\* ------------------------------------------------------------- filesystem
\* Paths the caller passes as source/target.
Names == {"a", "b"}
\* target+".old"
Old(p) == p \o ".old"
Paths == Names \cup {Old(n) : n \in Names}

Missing == [kind |-> "none", data |-> <<>>]
File(d) == [kind |-> "file", data |-> d]
\* a directory whose os.stat gives st_size n; open(p,"rb") fails on it
Dir(n) == [kind |-> "dir", data |-> <<>>, size |-> n]
\* st_size of a directory depends on the filesystem: 0 (NTFS, btrfs, procfs)
\* or one block (ext4)
DirSizes == {0, 4096}
\* Contents of the caller's files when the transaction is created.
InitData == {<<1>>, <<2>>, <<1, 2>>}
\* Content of a backup file left behind by an earlier run.
ResidueData == {<<3>>}
Platforms == {"win32", "posix"}
\* Major versions of the interpreter.
PythonVersions == {2, 3}

VARIABLES
    platform,   \* sys.platform
    python,     \* sys.version_info[0] of the interpreter running the module
    fs,         \* the filesystem: path -> Missing or File(bytes)
    pending,    \* self.pending
    phase,      \* caller's position: "open", "committing", "returned", "failed", "aborted"
    idx,        \* commit(): index in self.pending of the op being applied (0: none yet)
    pc,         \* commit(): position inside the op: "idle", "next", "begin", "apply", "restore", "cleanup"
    err,        \* exception that left the last commit(): [idx, step]
    fs0,        \* history: the filesystem when the transaction was created
    calls,      \* history: the move/copy/remove calls made so far
    ncommit,    \* history: number of commit() calls started
    applied,    \* history: queue entries started by commit(), all commits, in order
    cstart,     \* history: Len(applied) when the current/last commit() started
    finished,   \* history: ops of the current/last commit() whose method returned or raised
    pre,        \* history: the filesystem when the current/last op started
    swallowed   \* history: the current/last op swallowed a failed unlink of the backup

vars == <<platform, python, fs, pending, phase, idx, pc, err, fs0, calls, ncommit,
          applied, cstart, finished, pre, swallowed>>

NoErr == [idx |-> 0, step |-> "none"]
\* the IOError of open(file,"rb") in files_differ, raised in move()/copy()
OpenError == [idx |-> 0, step |-> "open"]

\* ------------------------------------------------------- os / shutil layer
exists(f, p) == f[p].kind # "none"
isfile(f, p) == f[p].kind = "file"
\* os.stat(p).st_size
st_size(f, p) == IF f[p].kind = "dir" THEN f[p].size ELSE Len(f[p].data)

Min(x, y) == IF x < y THEN x ELSE y

\* f.read(ChunkSize) at offset pos
ReadChunk(d, pos) == SubSeq(d, pos + 1, Min(pos + ChunkSize, Len(d)))

\* CompareFrom with a fault: only the first read is compared
CompareFirstRead(d1, d2, pos) == ReadChunk(d1, pos) # ReadChunk(d2, pos)

\* the read loop of files_differ, both files at offset pos
RECURSIVE CompareFrom(_, _, _)
CompareFrom(d1, d2, pos) ==
    LET data1 == ReadChunk(d1, pos)
        data2 == ReadChunk(d2, pos)
    IN  IF data1 # <<>> /\ data2 # <<>>
        THEN IF data1 # data2 THEN TRUE
             ELSE CompareFrom(d1, d2, pos + ChunkSize)
        ELSE data1 # data2

files_differ(f, file1, file2) ==
    IF ~exists(f, file1) \/ ~exists(f, file2) THEN TRUE
    ELSE IF st_size(f, file1) # st_size(f, file2) THEN TRUE
    ELSE CompareFrom(f[file1].data, f[file2].data, 0)

\* open(p,"rb") succeeds
CanOpen(f, p) == isfile(f, p)

\* files_differ raises instead of returning: both stats succeeded, the sizes
\* are equal, and one of the two open() calls, which no except clause
\* covers, fails
files_differ_raises(f, file1, file2) ==
    /\ exists(f, file1)
    /\ exists(f, file2)
    /\ st_size(f, file1) = st_size(f, file2)
    /\ ~(CanOpen(f, file1) /\ CanOpen(f, file2))

\* os.rename(src, dst) can succeed: src exists, and on win32 dst must not
\* exist (renaming a file onto itself is allowed everywhere).
RenameCan(f, src, dst) ==
    /\ exists(f, src)
    /\ (platform = "win32" /\ src # dst) => ~exists(f, dst)

\* the filesystem after a successful os.rename(src, dst)
RenameDo(f, src, dst) ==
    IF src = dst THEN f
    ELSE [f EXCEPT ![dst] = f[src], ![src] = Missing]

\* shutil.copy2(src, dst) can succeed: src exists and is not dst
Copy2Can(f, src, dst) == exists(f, src) /\ src # dst

\* the filesystem after a successful shutil.copy2(src, dst)
Copy2Do(f, src, dst) == [f EXCEPT ![dst] = f[src]]

StrictPrefixes(d) == {SubSeq(d, 1, n) : n \in 0..(Len(d) - 1)}

\* the filesystems shutil.copy2(src, dst) can leave behind when it raises:
\* nothing written (src unreadable, same file, dst not writable), dst
\* truncated and partly written, or dst fully written (copystat raised).
Copy2Fail(f, src, dst) ==
    {f} \cup
    (IF Copy2Can(f, src, dst)
     THEN {[f EXCEPT ![dst] = File(d)] : d \in StrictPrefixes(f[src].data)}
          \cup {Copy2Do(f, src, dst)}
     ELSE {})

\* UnlinkDo with a fault: the file stays
UnlinkKeep(f, p) == f

\* os.unlink(p) can succeed
UnlinkCan(f, p) == isfile(f, p)
UnlinkDo(f, p) == [f EXCEPT ![p] = Missing]

\* os.rmdir(p) can succeed: p is a directory
RmdirCan(f, p) == f[p].kind = "dir"
RmdirDo(f, p) == [f EXCEPT ![p] = Missing]


\* ------------------------------------------------------------------ Init
\* FSTransaction.__init__ on an arbitrary filesystem: each caller file is
\* missing or holds some data, each backup path is missing or a leftover.
NewTransaction ==
    /\ fs \in {f \in [Paths -> {Missing} \cup {File(d) : d \in InitData \cup ResidueData}] :
                 /\ \A n \in Names : f[n] = Missing \/ f[n].data \in InitData
                 /\ \A n \in Names : f[Old(n)] = Missing \/ f[Old(n)].data \in ResidueData}
    /\ pending = <<>>
    /\ phase = "open"
    /\ idx = 0
    /\ pc = "idle"
    /\ err = NoErr
    /\ fs0 = fs
    /\ calls = <<>>
    /\ ncommit = 0
    /\ applied = <<>>
    /\ cstart = 0
    /\ finished = 0
    /\ pre = fs
    /\ swallowed = FALSE

\* The deferred class does nothing that depends on the interpreter version
\* (its calls and except clauses are the same in python 2 and 3), so its
\* specification runs it on one.
Init ==
    /\ platform \in Platforms
    /\ python = 2
    /\ NewTransaction

\* --------------------------------------------------- move / copy / remove
\* The caller follows the lifecycle Open -> Committed | Aborted: it enqueues
\* while the transaction is open.  (After abort() the object equals a new
\* one on the same filesystem, which Init covers.)
CanCall == phase = "open" /\ Len(calls) < MaxCalls

Called(c) ==
    /\ calls' = Append(calls, c)
    /\ phase' = "open"
    /\ UNCHANGED <<platform, python, fs, idx, pc, err, fs0, ncommit, applied, cstart, finished, pre, swallowed>>

\* the call raised out of files_differ: nothing was enqueued
CallRaised(c) ==
    /\ calls' = Append(calls, c)
    /\ err' = OpenError
    /\ UNCHANGED <<platform, python, fs, pending, phase, idx, pc, fs0, ncommit, applied, cstart,
                   finished, pre, swallowed>>

\* self.pending.append(("_remove",target))
remove_append(q, target) == Append(q, <<"_remove", target>>)

\* move_pending with a fault: the redundant move removes the target
move_pending_target(q, f, source, target) ==
    IF files_differ(f, source, target)
    THEN Append(q, <<"_move", source, target>>)
    ELSE remove_append(q, target)

\* the queue after move(source, target)
move_pending(q, f, source, target) ==
    IF files_differ(f, source, target)
    THEN Append(q, <<"_move", source, target>>)
    ELSE remove_append(q, source)

\* copy_pending with a fault: copy enqueues without comparing
copy_pending_always(q, f, source, target) == Append(q, <<"_copy", source, target>>)

\* the queue after copy(source, target)
copy_pending(q, f, source, target) ==
    IF files_differ(f, source, target)
    THEN Append(q, <<"_copy", source, target>>)
    ELSE q

\* move with a fault: renames at once instead of enqueueing
move_eager(source, target) ==
    /\ CanCall
    /\ fs' = IF RenameCan(fs, source, target) THEN RenameDo(fs, source, target) ELSE fs
    /\ calls' = Append(calls, <<"move", source, target>>)
    /\ UNCHANGED <<platform, python, pending, phase, idx, pc, err, fs0, ncommit, applied,
                   cstart, finished, pre, swallowed>>

move(source, target) ==
    /\ CanCall
    /\ IF files_differ_raises(fs, source, target)
       THEN CallRaised(<<"move", source, target>>)
       ELSE /\ pending' = move_pending(pending, fs, source, target)
            /\ Called(<<"move", source, target>>)

copy(source, target) ==
    /\ CanCall
    /\ IF files_differ_raises(fs, source, target)
       THEN CallRaised(<<"copy", source, target>>)
       ELSE /\ pending' = copy_pending(pending, fs, source, target)
            /\ Called(<<"copy", source, target>>)

remove(target) ==
    /\ CanCall
    /\ pending' = remove_append(pending, target)
    /\ Called(<<"remove", target>>)

\* ------------------------------------------------------------------ abort
\* abort_pending with a fault: del self.pending[0]
abort_pending_first(q) == IF q = <<>> THEN q ELSE Tail(q)

\* del self.pending[:]
abort_pending(q) == <<>>

abort ==
    /\ phase = "open"
    /\ pending' = abort_pending(pending)
    /\ phase' = "aborted"
    /\ UNCHANGED <<platform, python, fs, idx, pc, err, fs0, calls, ncommit, applied, cstart, finished, pre, swallowed>>

\* ----------------------------------------------------------------- commit
\* the op commit() is applying, as stored: (name, args...)
op == pending[idx]
opname == op[1]
opsource == op[2]
optarget == op[Len(op)]

\* NextIndex with a fault: the loop steps over every other entry
NextIndexSkip(i) == i + 2

\* "for op in self.pending": the index after i
NextIndex(i) == i + 1

\* the state of self.pending when commit() is left
commit_pending(q) == q

\* commit() is entered: on an open transaction, or again after a commit
\* (the code has no guard against a second commit)
commit ==
    /\ phase \in {"open", "returned", "failed"}
    /\ ncommit < MaxCommits
    /\ phase' = "committing"
    /\ idx' = 0
    /\ pc' = "next"
    /\ err' = NoErr
    /\ ncommit' = ncommit + 1
    /\ cstart' = Len(applied)
    /\ finished' = 0
    /\ pre' = fs
    /\ swallowed' = FALSE
    /\ UNCHANGED <<platform, python, fs, pending, fs0, calls, applied>>

\* the loop takes the next queue entry and calls its method
commit_next ==
    /\ phase = "committing"
    /\ pc = "next"
    /\ NextIndex(idx) \in 1..Len(pending)
    /\ idx' = NextIndex(idx)
    /\ pc' = "begin"
    /\ applied' = Append(applied, pending[NextIndex(idx)])
    /\ pre' = fs
    /\ swallowed' = FALSE
    /\ UNCHANGED <<platform, python, fs, pending, phase, err, fs0, calls, ncommit, cstart, finished>>

\* the loop is exhausted: commit() returns
commit_return ==
    /\ phase = "committing"
    /\ pc = "next"
    /\ NextIndex(idx) \notin 1..Len(pending)
    /\ phase' = "returned"
    /\ pc' = "idle"
    /\ pending' = commit_pending(pending)
    /\ UNCHANGED <<platform, python, fs, idx, err, fs0, calls, ncommit, applied, cstart, finished, pre, swallowed>>

InOp(name, at) == phase = "committing" /\ pc = at /\ opname = name

\* Raise with a fault: commit() puts the filesystem back before it fails
RaiseRollback(step, f) ==
    /\ fs' = fs0
    /\ phase' = "failed"
    /\ pc' = "idle"
    /\ err' = [idx |-> idx, step |-> step]
    /\ finished' = finished + 1
    /\ UNCHANGED <<platform, python, pending, idx, fs0, calls, ncommit, applied, cstart, pre, swallowed>>

\* an exception leaves the op and, uncaught, commit()
Raise(step, f) ==
    /\ fs' = f
    /\ phase' = "failed"
    /\ pc' = "idle"
    /\ err' = [idx |-> idx, step |-> step]
    /\ pending' = commit_pending(pending)
    /\ finished' = finished + 1
    /\ UNCHANGED <<platform, python, idx, fs0, calls, ncommit, applied, cstart, pre, swallowed>>

\* the op's method returns to the loop
Return(f, sw) ==
    /\ fs' = f
    /\ pc' = "next"
    /\ swallowed' = sw
    /\ finished' = finished + 1
    /\ UNCHANGED <<platform, python, pending, phase, idx, err, fs0, calls, ncommit, applied, cstart, pre>>

\* a step inside the op's method
Goto(at, f) ==
    /\ fs' = f
    /\ pc' = at
    /\ UNCHANGED <<platform, python, pending, phase, idx, err, fs0, calls, ncommit, applied, cstart, finished, pre, swallowed>>

\* sys.platform == "win32" and os.path.exists(target)
UsesBackup(f, target) == platform = "win32" /\ exists(f, target)

\* Backup with a fault: a failed backup rename is ignored
BackupIgnore(name) ==
    /\ InOp(name, "begin")
    /\ UsesBackup(fs, optarget)
    /\ \/ /\ RenameCan(fs, optarget, Old(optarget))
          /\ Goto("apply", RenameDo(fs, optarget, Old(optarget)))
       \/ Goto("apply", fs)

\* os.rename(target,target+".old")
Backup(name) ==
    /\ InOp(name, "begin")
    /\ UsesBackup(fs, optarget)
    /\ \/ /\ RenameCan(fs, optarget, Old(optarget))
          /\ Goto("apply", RenameDo(fs, optarget, Old(optarget)))
       \/ Raise("backup", fs)

\* except: os.rename(target+".old",target); raise
Restore(name) ==
    /\ InOp(name, "restore")
    /\ \/ /\ RenameCan(fs, Old(optarget), optarget)
          /\ Raise("apply", RenameDo(fs, Old(optarget), optarget))
       \/ Raise("restore", fs)

\* Cleanup with a fault: the backup is never deleted
CleanupSkip(name) ==
    /\ InOp(name, "cleanup")
    /\ Return(fs, FALSE)

\* else: try: os.unlink(target+".old") except EnvironmentError: pass
Cleanup(name) ==
    /\ InOp(name, "cleanup")
    /\ \/ /\ UnlinkCan(fs, Old(optarget))
          /\ Return(UnlinkDo(fs, Old(optarget)), FALSE)
       \/ Return(fs, TRUE)

\* _move, win32 with an existing target: backup
_move_backup == Backup("_move")

\* _move: try: os.rename(source,target)
_move_apply ==
    /\ InOp("_move", "apply")
    /\ \/ /\ RenameCan(fs, opsource, optarget)
          /\ Goto("cleanup", RenameDo(fs, opsource, optarget))
       \/ Goto("restore", fs)

_move_restore == Restore("_move")

_move_cleanup == Cleanup("_move")

\* _move, else branch: os.rename(source,target)
_move_direct ==
    /\ InOp("_move", "begin")
    /\ ~UsesBackup(fs, optarget)
    /\ \/ /\ RenameCan(fs, opsource, optarget)
          /\ Return(RenameDo(fs, opsource, optarget), FALSE)
       \/ Raise("apply", fs)

_copy_backup == Backup("_copy")

\* _copy: try: shutil.copy2(source,target)
_copy_apply ==
    /\ InOp("_copy", "apply")
    /\ \/ /\ Copy2Can(fs, opsource, optarget)
          /\ Goto("cleanup", Copy2Do(fs, opsource, optarget))
       \/ \E f \in Copy2Fail(fs, opsource, optarget) : Goto("restore", f)

_copy_restore == Restore("_copy")

_copy_cleanup == Cleanup("_copy")

\* _copy, else branch: shutil.copy2(source,target)
_copy_direct ==
    /\ InOp("_copy", "begin")
    /\ ~UsesBackup(fs, optarget)
    /\ \/ /\ Copy2Can(fs, opsource, optarget)
          /\ Return(Copy2Do(fs, opsource, optarget), FALSE)
       \/ \E f \in Copy2Fail(fs, opsource, optarget) : Raise("apply", f)

\* _remove with a fault: a target that is already gone is not an error
_remove_lenient ==
    /\ InOp("_remove", "begin")
    /\ IF isfile(fs, optarget)
       THEN \/ /\ UnlinkCan(fs, optarget)
               /\ Return(UnlinkDo(fs, optarget), FALSE)
            \/ Raise("remove", fs)
       ELSE Return(fs, FALSE)

\* _remove: unlink a file, rmdir anything else
_remove ==
    /\ InOp("_remove", "begin")
    /\ IF isfile(fs, optarget)
       THEN \/ /\ UnlinkCan(fs, optarget)
               /\ Return(UnlinkDo(fs, optarget), FALSE)
            \/ Raise("remove", fs)
       ELSE \/ /\ RmdirCan(fs, optarget)
               /\ Return(RmdirDo(fs, optarget), FALSE)
            \/ Raise("remove", fs)

Next ==
    \/ \E s \in Names, t \in Names : move(s, t)
    \/ \E s \in Names, t \in Names : copy(s, t)
    \/ \E t \in Names : remove(t)
    \/ abort
    \/ commit
    \/ commit_next
    \/ commit_return
    \/ _move_backup
    \/ _move_apply
    \/ _move_restore
    \/ _move_cleanup
    \/ _move_direct
    \/ _copy_backup
    \/ _copy_apply
    \/ _copy_restore
    \/ _copy_cleanup
    \/ _copy_direct
    \/ _remove

Spec == Init /\ [][Next]_vars

TypeOK ==
    /\ platform \in Platforms
    /\ python \in PythonVersions
    /\ phase \in {"open", "committing", "returned", "failed", "aborted"}
    /\ pc \in {"idle", "next", "begin", "apply", "restore", "cleanup"}
    /\ phase = "committing" => idx \in 0..Len(pending)
    /\ Len(pending) <= Len(calls)
    /\ ncommit \in 0..MaxCommits

\* ------------------------------------------------ files_differ, large files
\* File sizes below, at and above one read, and above two reads.
CmpLens == {1, ChunkSize - 1, ChunkSize, ChunkSize + 1, ChunkSize + ChunkSize + 1}
\* every content of such a size over two byte values
CmpData == UNION {[1..n -> {0, 1}] : n \in CmpLens}
CmpFiles == {Missing} \cup {File(d) : d \in CmpData}

\* a new transaction on a filesystem holding two files of such sizes
InitCmp ==
    /\ platform \in Platforms
    /\ python \in PythonVersions
    /\ \E x \in CmpFiles, y \in CmpFiles :
          fs = [p \in Paths |-> IF p = "a" THEN x ELSE IF p = "b" THEN y ELSE Missing]
    /\ pending = <<>>
    /\ phase = "open"
    /\ idx = 0
    /\ pc = "idle"
    /\ err = NoErr
    /\ fs0 = fs
    /\ calls = <<>>
    /\ ncommit = 0
    /\ applied = <<>>
    /\ cstart = 0
    /\ finished = 0
    /\ pre = fs
    /\ swallowed = FALSE

\* the first call on the transaction is copy(source, target), which runs
\* files_differ(source, target)
compare(source, target) == calls = <<>> /\ copy(source, target)

NextCmp == \E s \in Names, t \in Names : compare(s, t)

SpecCmp == InitCmp /\ [][NextCmp]_vars

\* ------------------------------------------ files_differ on directories
\* files and directories, among them ones with equal st_size
OpenFiles == {Missing, File(<<>>), File(<<1>>)} \cup {Dir(n) : n \in DirSizes}

\* a new transaction where a and b may be directories or empty files
InitOpen ==
    /\ platform \in Platforms
    /\ python \in PythonVersions
    /\ \E x \in OpenFiles, y \in OpenFiles :
          fs = [p \in Paths |-> IF p = "a" THEN x ELSE IF p = "b" THEN y ELSE Missing]
    /\ pending = <<>>
    /\ phase = "open"
    /\ idx = 0
    /\ pc = "idle"
    /\ err = NoErr
    /\ fs0 = fs
    /\ calls = <<>>
    /\ ncommit = 0
    /\ applied = <<>>
    /\ cstart = 0
    /\ finished = 0
    /\ pre = fs
    /\ swallowed = FALSE

\* the caller enqueues moves and copies
NextOpen ==
    \/ \E s \in Names, t \in Names : move(s, t)
    \/ \E s \in Names, t \in Names : copy(s, t)

SpecOpen == InitOpen /\ [][NextOpen]_vars

\* ------------------------------------------- the native (ktmw32) backend
\* The class defined when CreateTransaction is available (win32 only).  Here
\* fs is the filesystem as the open transaction sees it and fs0 the committed
\* filesystem, which os.path.exists and files_differ (not transacted) read;
\* err is the exception that left a call; pending and the commit-loop
\* variables are unused.  The transacted calls fail only when the files make
\* them fail, and a failure is a return value that the code drops.

\* MoveFileTransacted(src,dst,None,None,1,trnid): 1 replaces an existing dst
MoveFileTransacted(f, src, dst) ==
    IF exists(f, src) /\ src # dst
    THEN [f EXCEPT ![dst] = f[src], ![src] = Missing]
    ELSE f

\* CopyFileTransacted(src,dst,None,None,None,0,trnid)
CopyFileTransacted(f, src, dst) ==
    IF exists(f, src) /\ src # dst
    THEN [f EXCEPT ![dst] = f[src]]
    ELSE f

\* DeleteFileTransacted(p,trnid)
DeleteFileTransacted(f, p) ==
    IF isfile(f, p) THEN [f EXCEPT ![p] = Missing] ELSE f

\* tgtenc = source.encode(...), in move and copy
tgtenc(source, target) == source

\* remove(): "tgtenc = source.encode(...)" names no variable of remove
NameError == [idx |-> 0, step |-> "NameError"]

\* tgtenc+".old" with tgtenc the result of encode(): a str in python 2, a
\* bytes object that cannot be joined to a str in python 3
TypeError == [idx |-> 0, step |-> "TypeError"]

\* the body of move after the files_differ test: the filesystem in the
\* transaction and the exception it leaves with
native_move_body(f, source, target) ==
    LET tgt == tgtenc(source, target)
    IN  IF exists(fs0, target)
        THEN IF python = 3
             THEN [fs |-> f, err |-> TypeError]
             ELSE [fs |-> DeleteFileTransacted(
                              MoveFileTransacted(MoveFileTransacted(f, tgt, Old(tgt)),
                                                 source, tgt),
                              Old(tgt)),
                   err |-> NoErr]
        ELSE [fs |-> MoveFileTransacted(f, source, tgt), err |-> NoErr]

\* the body of copy after the files_differ test
native_copy_body(f, source, target) ==
    LET tgt == tgtenc(source, target)
    IN  IF exists(fs0, target)
        THEN IF python = 3
             THEN [fs |-> f, err |-> TypeError]
             ELSE [fs |-> DeleteFileTransacted(
                              CopyFileTransacted(MoveFileTransacted(f, tgt, Old(tgt)),
                                                 source, tgt),
                              Old(tgt)),
                   err |-> NoErr]
        ELSE [fs |-> CopyFileTransacted(f, source, tgt), err |-> NoErr]

\* a call returns or raises, leaving f in the transaction
NativeCalled(c, f, e) ==
    /\ calls' = Append(calls, c)
    /\ fs' = f
    /\ err' = e
    /\ UNCHANGED <<platform, python, pending, phase, idx, pc, fs0, ncommit, applied, cstart,
                   finished, pre, swallowed>>

\* move: identical files go to self.remove(source), which raises
native_move(source, target) ==
    /\ CanCall
    /\ IF files_differ(fs0, source, target)
       THEN NativeCalled(<<"move", source, target>>,
                         native_move_body(fs, source, target).fs,
                         native_move_body(fs, source, target).err)
       ELSE NativeCalled(<<"move", source, target>>, fs, NameError)

native_copy(source, target) ==
    /\ CanCall
    /\ IF files_differ(fs0, source, target)
       THEN NativeCalled(<<"copy", source, target>>,
                         native_copy_body(fs, source, target).fs,
                         native_copy_body(fs, source, target).err)
       ELSE NativeCalled(<<"copy", source, target>>, fs, NoErr)

\* remove raises in its first statement
native_remove(target) ==
    /\ CanCall
    /\ NativeCalled(<<"remove", target>>, fs, NameError)

\* CommitTransaction(self.trnid)
native_commit ==
    /\ phase = "open"
    /\ phase' = "returned"
    /\ ncommit' = ncommit + 1
    /\ UNCHANGED <<platform, python, fs, pending, idx, pc, err, fs0, calls, applied, cstart,
                   finished, pre, swallowed>>

\* RollbackTransaction(self.trnid)
native_abort ==
    /\ phase = "open"
    /\ phase' = "aborted"
    /\ fs' = fs0
    /\ UNCHANGED <<platform, python, pending, idx, pc, err, fs0, calls, ncommit, applied, cstart,
                   finished, pre, swallowed>>

InitNative ==
    /\ platform = "win32"
    /\ python \in PythonVersions
    /\ NewTransaction

NextNative ==
    \/ \E s \in Names, t \in Names : native_move(s, t)
    \/ \E s \in Names, t \in Names : native_copy(s, t)
    \/ \E t \in Names : native_remove(t)
    \/ native_commit
    \/ native_abort

SpecNative == InitNative /\ [][NextNative]_vars

\* The call whose exception left commit(): the source raises nothing of its
\* own, so the caller gets the error of the os / shutil call that failed.
Raised ==
    CASE err.step \in {"backup", "restore"} -> "os.rename"
      [] err.step = "apply" ->
            IF pending[err.idx][1] = "_move" THEN "os.rename" ELSE "shutil.copy2"
      [] err.step = "remove" ->
            IF isfile(pre, pending[err.idx][2]) THEN "os.unlink" ELSE "os.rmdir"
      [] OTHER -> "none"

\* ------------------------------------------------ immediate execution
\* Call c performed at once on filesystem f, no system call failing for a
\* reason outside f: the skip rule of move/copy is evaluated on f, then the
\* method of the queue entry runs.
\* The call can be performed: source is there and, where a backup is made,
\* the backup rename can succeed.
CanPerformNow(f, c) ==
    LET s == c[2]
        t == c[Len(c)]
    IN  CASE c[1] = "remove" -> exists(f, t)
          [] c[1] = "move" ->
                files_differ(f, s, t) =>
                    /\ exists(f, s)
                    /\ UsesBackup(f, t) => RenameCan(f, t, Old(t))
          [] c[1] = "copy" ->
                files_differ(f, s, t) =>
                    /\ exists(f, s)
                    /\ s # t
                    /\ UsesBackup(f, t) => RenameCan(f, t, Old(t))

PerformNow(f, c) ==
    LET s == c[2]
        t == c[Len(c)]
    IN  CASE c[1] = "remove" -> [f EXCEPT ![t] = Missing]
          [] c[1] = "move" ->
                IF ~files_differ(f, s, t) THEN [f EXCEPT ![s] = Missing]
                ELSE IF s = t THEN f
                ELSE [f EXCEPT ![t] = f[s], ![s] = Missing]
          [] c[1] = "copy" ->
                IF ~files_differ(f, s, t) THEN f
                ELSE [f EXCEPT ![t] = f[s]]

\* every call of cs can be performed, each on what the ones before it left
RECURSIVE ImmediateOk(_, _)
ImmediateOk(f, cs) ==
    IF cs = <<>> THEN TRUE
    ELSE CanPerformNow(f, Head(cs)) /\ ImmediateOk(PerformNow(f, Head(cs)), Tail(cs))

\* the filesystem after performing the calls of cs in order
RECURSIVE ImmediateRun(_, _)
ImmediateRun(f, cs) ==
    IF cs = <<>> THEN f
    ELSE ImmediateRun(PerformNow(f, Head(cs)), Tail(cs))

\* ================================================================ claims
\* the queue entries started by the current/last commit()
cur == SubSeq(applied, cstart + 1, Len(applied))

\* the paths an op's method names: its arguments and target+".old"
Touched(o) == {o[i] : i \in 2..Len(o)} \cup {Old(o[Len(o)])}

\* C1: after any sequence of move/copy/remove calls on a new transaction
\* followed by abort(), the filesystem is what it was before the first call
\* and the pending queue is empty.
C1_AbortIsNoOp ==
    (phase = "aborted" /\ ncommit = 0) => (fs = fs0 /\ pending = <<>>)

\* two calls, one of them a remove (which always enqueues), then abort()
C1_Witness ==
    /\ phase = "aborted"
    /\ ncommit = 0
    /\ Len(calls) >= 2
    /\ \E i \in 1..Len(calls) : calls[i][1] = "remove"

\* C2: as long as commit() has not been called, the filesystem is the one
\* the transaction was created on, whatever has been enqueued.
C2_DeferredUntilCommit ==
    ncommit = 0 => fs = fs0

\* a move and one more op are queued, commit() not yet called, and the move's
\* rename would change the filesystem if it ran
C2_Witness ==
    /\ ncommit = 0
    /\ Len(pending) >= 2
    /\ \E i \in 1..Len(pending) :
          /\ pending[i][1] = "_move"
          /\ exists(fs, pending[i][2])
          /\ pending[i][2] # pending[i][3]

\* C3: within one commit() the ops are started in queue order, one at a time,
\* none skipped and none twice; a commit() that returns has applied them all.
C3_FifoOrder ==
    (phase \in {"committing", "returned", "failed"}) =>
        /\ Len(cur) <= Len(pending)
        /\ cur = SubSeq(pending, 1, Len(cur))
        /\ idx = Len(cur)
        /\ Len(cur) - finished \in {0, 1}
        /\ (pc = "next" \/ phase # "committing") => finished = Len(cur)
        /\ phase = "returned" => cur = pending

\* a commit() of two different entries has returned
C3_Witness ==
    /\ phase = "returned"
    /\ ncommit = 1
    /\ Len(pending) = 2
    /\ pending[1] # pending[2]
    /\ fs # fs0

\* C4: when commit() fails, the error is the one of the op that was running
\* (the k-th), no later op has been started, and outside the paths op k
\* names the filesystem is as ops 1..k-1 left it (nothing is rolled back).
C4_FailureKeepsPrefix ==
    phase = "failed" =>
        /\ err.idx \in 1..Len(pending)
        /\ err.idx = Len(cur)
        /\ cur = SubSeq(pending, 1, err.idx)
        /\ err.step \in (IF pending[err.idx][1] = "_remove" THEN {"remove"}
                         ELSE {"backup", "apply", "restore"})
        /\ \A p \in Paths \ Touched(pending[err.idx]) : fs[p] = pre[p]

\* the second op failed after the first one changed a path the second op
\* does not name
C4_Witness ==
    /\ phase = "failed"
    /\ ncommit = 1
    /\ err.idx = 2
    /\ \E p \in Paths \ Touched(pending[2]) : pre[p] # fs0[p]

\* the method of op idx has returned: the op succeeded
OpSucceeded ==
    /\ phase \in {"committing", "returned"}
    /\ pc \in {"next", "idle"}
    /\ idx >= 1
    /\ finished = idx

\* op idx is a move or copy onto a target that existed when the op started
ReplaceOp == opname \in {"_move", "_copy"} /\ exists(pre, optarget)

\* commit() failed in op idx because rename/copy of source to target failed
ApplyFailed == phase = "failed" /\ err.step \in {"apply", "restore"}

\* C5 (as claimed): once commit() has returned or failed the queue is empty,
\* and a second commit() starts no op.
C5_CommitIsTerminal ==
    /\ phase \in {"returned", "failed"} => pending = <<>>
    /\ ncommit >= 2 => cur = <<>>

\* C6 (as claimed): when the apply step of a move/copy onto an existing
\* target fails, commit() leaves target with its pre-operation content and
\* no target+".old" (stated for a target+".old" that did not exist before).
C6_RestoreOnFailure ==
    (ApplyFailed /\ ReplaceOp /\ ~exists(pre, Old(optarget))) =>
        /\ fs[optarget] = pre[optarget]
        /\ ~exists(fs, Old(optarget))

\* C7 (as claimed): after a successful move/copy onto an existing target
\* there is no target+".old", target holds source's pre-operation content
\* and a moved source is gone (stated for a target+".old" that did not exist
\* before).
C7_ReplaceLeavesNoBackup ==
    (OpSucceeded /\ ReplaceOp /\ ~exists(pre, Old(optarget))) =>
        /\ ~exists(fs, Old(optarget))
        /\ fs[optarget] = pre[opsource]
        /\ opname = "_move" => ~exists(fs, opsource)

\* C7 (amended): after a successful move/copy onto an existing target, target
\* holds source's pre-operation content; a moved source other than target is
\* gone; target+".old" exists only if deleting the backup failed (swallowed)
\* or, off win32 where no backup is made, it was there before and is untouched.
C7_ReplaceOnSuccess ==
    (OpSucceeded /\ ReplaceOp) =>
        /\ fs[optarget] = pre[opsource]
        /\ (opname = "_move" /\ opsource # optarget) => ~exists(fs, opsource)
        /\ exists(fs, Old(optarget)) =>
              \/ platform = "win32" /\ swallowed /\ fs[Old(optarget)] = pre[optarget]
              \/ platform # "win32" /\ fs[Old(optarget)] = pre[Old(optarget)]

\* on win32 a copy replaced an existing target through the backup and the
\* backup was deleted
C7_Witness ==
    /\ OpSucceeded
    /\ ReplaceOp
    /\ opname = "_copy"
    /\ platform = "win32"
    /\ fs[optarget] # pre[optarget]
    /\ ~exists(fs, Old(optarget))

\* C8 (as claimed): at every step of a move/copy onto an existing target T,
\* T's pre-operation content is at T or at T+".old", or T holds the complete
\* new content.
C8_CrashTolerance ==
    (phase \in {"committing", "failed"} /\ idx >= 1 /\ ReplaceOp) =>
        \/ fs[optarget] = pre[optarget]
        \/ fs[Old(optarget)] = pre[optarget]
        \/ exists(pre, opsource) /\ fs[optarget] = pre[opsource]

\* the only call made on the transaction, and its arguments
onlycall == calls[1]
IsOnly(name) == Len(calls) = 1 /\ onlycall[1] = name

\* C9 (as claimed): a transaction holding only move(a, b) with a and b
\* byte-identical at the call, once committed, leaves a removed and b
\* existing and unchanged.
C9_MoveSkipAnyPaths ==
    (IsOnly("move") /\ phase = "returned" /\ ncommit = 1
        /\ ~files_differ(fs0, onlycall[2], onlycall[3])) =>
        /\ ~exists(fs, onlycall[2])
        /\ exists(fs, onlycall[3])
        /\ fs[onlycall[3]] = fs0[onlycall[3]]

\* C9 (amended): the same for two distinct paths a and b.
C9_MoveSkip ==
    (IsOnly("move") /\ phase = "returned" /\ ncommit = 1
        /\ onlycall[2] # onlycall[3]
        /\ ~files_differ(fs0, onlycall[2], onlycall[3])) =>
        /\ ~exists(fs, onlycall[2])
        /\ exists(fs, onlycall[3])
        /\ fs[onlycall[3]] = fs0[onlycall[3]]
        /\ \A p \in Paths \ {onlycall[2]} : fs[p] = fs0[p]

\* move(a, b) of two identical files was the only call and commit() returned
C9_Witness ==
    /\ IsOnly("move")
    /\ phase = "returned"
    /\ ncommit = 1
    /\ onlycall[2] # onlycall[3]
    /\ ~files_differ(fs0, onlycall[2], onlycall[3])
    /\ applied = <<<<"_remove", onlycall[2]>>>>

\* C10: copy(a, b) of byte-identical files enqueues nothing and committing
\* changes nothing; copy(a, b) of differing files appends exactly one
\* ("_copy", a, b).
C10_CopySkip ==
    (IsOnly("copy") /\ phase # "aborted") =>
        IF files_differ(fs0, onlycall[2], onlycall[3])
        THEN pending = <<<<"_copy", onlycall[2], onlycall[3]>>>>
        ELSE pending = <<>> /\ fs = fs0

\* copy(a, b) of two identical files a # b was the only call and commit()
\* returned
C10_Witness ==
    /\ IsOnly("copy")
    /\ phase = "returned"
    /\ onlycall[2] # onlycall[3]
    /\ ~files_differ(fs0, onlycall[2], onlycall[3])


\* number of entries of seq equal to x
Count(seq, x) == Cardinality({i \in DOMAIN seq : seq[i] = x})

\* the calls that make the code append ("_remove", t): remove(t), and
\* move(t, x) of files found identical (calls are made before any commit,
\* on the filesystem fs0)
RemoveCalls(t) ==
    {i \in DOMAIN calls :
        \/ calls[i] = <<"remove", t>>
        \/ /\ calls[i][1] = "move"
           /\ calls[i][2] = t
           /\ ~files_differ(fs0, t, calls[i][3])}

\* op idx is a _remove whose method has returned or raised
RemoveDone ==
    /\ phase \in {"committing", "returned", "failed"}
    /\ idx >= 1
    /\ finished = idx
    /\ opname = "_remove"

\* C11 (as claimed): commit() fails on a ("_remove", target) entry if and
\* only if target does not exist when the entry is applied.
C11_RemoveFailsIffMissing ==
    (RemoveDone /\ calls[1][1] = "remove") => (phase = "failed" <=> ~exists(pre, optarget))

\* C11 (amended): remove(target) appends exactly one ("_remove", target)
\* whether or not target exists; when the entry is applied, a missing target
\* makes commit() fail and leaves the filesystem alone, an existing target is
\* deleted unless the delete call itself fails (then commit() fails too and
\* nothing is changed).
C11_RemoveAtApplyTime ==
    /\ phase # "aborted" =>
          \A t \in Names : Count(pending, <<"_remove", t>>) = Cardinality(RemoveCalls(t))
    /\ RemoveDone =>
          /\ ~exists(pre, optarget) => phase = "failed"
          /\ phase = "failed" => (fs = pre /\ err = [idx |-> idx, step |-> "remove"])
          /\ phase # "failed" => fs = [pre EXCEPT ![optarget] = Missing]

\* remove(t) was called on a missing t, an earlier op of the batch created t
\* and the entry then deleted it
C11_Witness ==
    /\ RemoveDone
    /\ phase = "returned"
    /\ idx = 2
    /\ calls[2] = <<"remove", optarget>>
    /\ ~exists(fs0, optarget)
    /\ exists(pre, optarget)
    /\ ~exists(fs, optarget)


\* the filesystem on which op idx ran its rename/copy of source to target:
\* after the backup rename when there was one
FsAtApply ==
    IF UsesBackup(pre, optarget) THEN RenameDo(pre, optarget, Old(optarget)) ELSE pre

\* the exception that left commit() is a not-found error: the system call
\* that raised it was given a path that did not exist
NotFoundError ==
    /\ phase = "failed"
    /\ CASE err.step = "remove"  -> ~exists(pre, optarget)
         [] err.step = "apply"   -> ~exists(FsAtApply, opsource)
         [] err.step = "restore" -> ~exists(fs, Old(optarget))
         [] OTHER                -> FALSE

\* the calls were remove(x); move(x, y) on an existing x, then commit()
RemoveThenMove ==
    /\ Len(calls) = 2
    /\ calls[1][1] = "remove"
    /\ calls[2][1] = "move"
    /\ calls[2][2] = calls[1][2]
    /\ exists(fs0, calls[1][2])
    /\ ncommit = 1

\* C12 (as claimed): remove(x); move(x, y); commit() never succeeds, and once
\* x has been removed commit() fails with the not-found error of the op
\* applied to x.
C12_NotFoundAtCommit ==
    RemoveThenMove =>
        /\ phase # "returned"
        /\ (phase = "failed" /\ err.idx = 2) =>
              (NotFoundError /\ err.step \in {"apply", "remove"})

\* C12 (amended): remove(x); move(x, y); commit() never succeeds.  If the
\* delete of x fails commit() fails there with nothing changed; otherwise it
\* fails in the second op with x gone, and the error is the not-found error
\* for x unless the backup rename of y failed first or the restore rename
\* failed, whose error then propagates instead.
C12_RemoveThenMoveFails ==
    RemoveThenMove =>
        /\ phase # "returned"
        /\ phase = "failed" =>
              IF err.idx = 1
              THEN fs = fs0 /\ err.step = "remove"
              ELSE /\ err.idx = 2
                   /\ ~exists(fs, calls[1][2])
                   /\ err.step \in {"apply", "remove"} => NotFoundError
                   /\ err.step = "backup" =>
                         (platform = "win32" /\ exists(pre, optarget) /\ fs = pre)

\* the remove deleted x and the queued move of x to another path failed in
\* its rename
C12_Witness ==
    /\ RemoveThenMove
    /\ phase = "failed"
    /\ err = [idx |-> 2, step |-> "apply"]
    /\ opname = "_move"
    /\ opsource # optarget
    /\ NotFoundError


\* C13: files_differ(file1, file2) is false exactly when both files exist
\* and have the same size and the same bytes, for files shorter than, as long
\* as and longer than one read; it is true when either is missing.  (copy
\* enqueues exactly when files_differ is true.)
C13_ComparatorCorrect ==
    IsOnly("copy") =>
        LET f1 == fs0[onlycall[2]]
            f2 == fs0[onlycall[3]]
        IN  /\ (pending = <<>>) <=>
                  /\ f1.kind = "file"
                  /\ f2.kind = "file"
                  /\ f1.data = f2.data
            /\ (f1 = Missing \/ f2 = Missing) => pending # <<>>

\* two files longer than one read, equal in the whole first read and
\* different after it, were compared and found different
C13_Witness ==
    /\ IsOnly("copy")
    /\ Len(fs0[onlycall[2]].data) > ChunkSize
    /\ Len(fs0[onlycall[2]].data) = Len(fs0[onlycall[3]].data)
    /\ ReadChunk(fs0[onlycall[2]].data, 0) = ReadChunk(fs0[onlycall[3]].data, 0)
    /\ pending # <<>>


\* C14 (as claimed): when a move/copy onto a backed-up target fails after
\* the backup, either the restore rename succeeded, target is as before and
\* the apply step's own error reaches the caller of commit(), or the caller
\* gets a RestoreFailure.
C14_RestoreFailureDistinct ==
    (/\ phase = "failed"
     /\ opname \in {"_move", "_copy"}
     /\ UsesBackup(pre, optarget)
     /\ err.step # "backup") =>
        \/ /\ err.step = "apply"
           /\ fs[optarget] = pre[optarget]
           /\ Raised = (IF opname = "_move" THEN "os.rename" ELSE "shutil.copy2")
        \/ Raised = "RestoreFailure"


\* C15 (as claimed): the native backend keeps the contract of the deferred
\* one.  After one call and commit(): a move or copy of an existing source
\* that differs from target did not raise and put source's content at
\* target; a move of identical files did not raise and only removed source;
\* remove of an existing target did not raise and deleted it.
C15_NativeSameContract ==
    (phase = "returned" /\ Len(calls) = 1) =>
        LET c == calls[1]
            s == c[2]
            t == c[Len(c)]
        IN  /\ (c[1] \in {"move", "copy"} /\ exists(fs0, s) /\ files_differ(fs0, s, t)) =>
                   (err = NoErr /\ fs[t] = fs0[s])
            /\ (c[1] = "move" /\ s # t /\ ~files_differ(fs0, s, t)) =>
                   (err = NoErr /\ fs = [fs0 EXCEPT ![s] = Missing])
            /\ (c[1] = "remove" /\ exists(fs0, t)) =>
                   (err = NoErr /\ ~exists(fs, t))


\* C16 (as claimed): after a successful first commit() the caller's files
\* are what performing each call at once, in call order, would have left,
\* the skip rule seeing the effects of the calls before it (stated for calls
\* that can all be performed that way).
C16_LaterOpsSeeEarlier ==
    (phase = "returned" /\ ncommit = 1 /\ ImmediateOk(fs0, calls)) =>
        \A n \in Names : fs[n] = ImmediateRun(fs0, calls)[n]


\* the method of op idx has returned or raised
OpDone ==
    /\ phase \in {"committing", "returned", "failed"}
    /\ idx >= 1
    /\ finished = idx

\* C17: a failed backup rename (target to target+".old") is raised from the
\* start of the op, before the apply step, with the filesystem as it was
\* when the op started, and is the error that leaves commit(); on win32 a
\* move/copy onto an existing target whose target+".old" exists ends so.
C17_BackupFailureStops ==
    /\ [](/\ (phase = "failed" /\ err.step = "backup") =>
                /\ fs = pre
                /\ err.idx = idx
                /\ opname \in {"_move", "_copy"}
                /\ UsesBackup(pre, optarget)
          /\ (OpDone /\ ReplaceOp /\ platform = "win32" /\ exists(pre, Old(optarget))) =>
                (phase = "failed" /\ err.step = "backup"))
    /\ [][(phase' = "failed" /\ err'.step = "backup" /\ phase = "committing") =>
             (pc = "begin" /\ fs' = fs /\ Raised' = "os.rename")]_vars

\* commit() failed in the backup rename of a move/copy whose target+".old"
\* was already there
C17_Witness ==
    /\ phase = "failed"
    /\ err.step = "backup"
    /\ ReplaceOp
    /\ exists(pre, Old(optarget))
    /\ exists(pre, opsource)
    /\ fs = pre


\* C18 (as claimed): an op that could not delete its backup has succeeded
\* all the same, and the backup file it left makes no later move/copy of
\* the transaction fail: the backup rename of an op whose source exists
\* does not fail on a target+".old" that this transaction left behind.
C18_ResidueHarmless ==
    /\ swallowed =>
          /\ OpSucceeded
          /\ exists(fs, Old(optarget))
          /\ fs[optarget] = pre[opsource]
    /\ (/\ phase = "failed"
        /\ err.step = "backup"
        /\ exists(pre, opsource)
        /\ ~exists(fs0, Old(optarget))) =>
          ~exists(pre, Old(optarget))


\* C19 (as claimed): files_differ never fails and changes nothing: no move
\* or copy call raises, the filesystem is untouched by the calls, and a
\* copy whose source or target is not a file that can be read is enqueued
\* (the files are treated as different).
C19_ComparatorNeverFails ==
    /\ err = NoErr
    /\ fs = fs0
    /\ (IsOnly("copy") /\ ~(CanOpen(fs0, onlycall[2]) /\ CanOpen(fs0, onlycall[3]))) =>
          pending = <<<<"_copy", onlycall[2], onlycall[3]>>>>


\* C20 (as claimed): after a successful commit() of a transaction holding
\* only move(source, target), with source existing at the call, target
\* holds source's content, also when source and target are the same path.
C20_MoveKeepsContent ==
    (/\ IsOnly("move")
     /\ phase = "returned"
     /\ ncommit = 1
     /\ exists(fs0, onlycall[2])) =>
        fs[onlycall[3]] = fs0[onlycall[2]]

====
